---- MODULE Spec2Model ----
(***************************************************************************)
(* A model of the tassapi client engine: the authenticated session        *)
(* (src/src/api/sessions.py), the verb dispatcher (src/src/api/worker.py), *)
(* the redirect adapter PreserveAuthenticationAdapter, file uploads, the   *)
(* JSON patch of a PatchableDict, the response envelope with its datetime  *)
(* hook (src/src/tassapi/api/response.py, src/src/utils/datetime_utils.py),*)
(* pagination (src/src/api/models.py), create with its key validation and  *)
(* the Content-Type header of a request.                                   *)
(***************************************************************************)
EXTENDS Integers, Sequences, FiniteSets, TLC

(***************************************************************************)
(* Bounds of the model.                                                    *)
(***************************************************************************)
MaxTime == 3
MaxCompanies == 2

(***************************************************************************)
(* Program constants.                                                      *)
(***************************************************************************)
\* TassAPIServer.token_expire_offset, default 60 seconds.
token_expire_offset == 60

\* TassAPIServer.cmpy_code: the configured tenant code, a string modelled as
\* a sequence of characters (1 and 2 stand for two distinct characters).
cmpy_code == <<1>>

(***************************************************************************)
(* Values of the authentication response body (JSON).                      *)
(***************************************************************************)
\* "token": a JSON string, or the key is missing.
TokenAbsent == "<absent>"
TokenStrings == {"tokA", "tokB"}
TokenFields == {TokenAbsent} \cup TokenStrings

\* A datetime value: naive or timezone aware, or Python None.
NaiveDate(n) == [kind |-> "naive", t |-> n]
AwareDate(n) == [kind |-> "aware", t |-> n]
NoneDate == [kind |-> "none", t |-> 0]

\* Points in time a token can expire at: with the offset taken off, they fall
\* inside the clock's range.
ExpiryTimes == {token_expire_offset + 1, token_expire_offset + 2}

\* "token_expiry_date": missing, a JSON number, or a JSON string that is an
\* ISO timestamp without zone ("iso"), with a trailing Z or an offset
\* ("isoZ"), or no timestamp at all ("garbage").
ExpAbsent == [type |-> "absent", fmt |-> "", t |-> 0]
ExpNum == [type |-> "num", fmt |-> "", t |-> token_expire_offset + 1]
ExpGarbage == [type |-> "str", fmt |-> "garbage", t |-> 0]
ExpIso(n) == [type |-> "str", fmt |-> "iso", t |-> n]
ExpIsoZ(n) == [type |-> "str", fmt |-> "isoZ", t |-> n]
ExpiryFields ==
    {ExpAbsent, ExpNum, ExpGarbage}
        \cup {ExpIso(n) : n \in ExpiryTimes} \cup {ExpIsoZ(n) : n \in ExpiryTimes}

\* A tenant record of "allowed_companies" is modelled by what
\* cmpy.get("cmpy_code", "") returns for it: its code, or the empty string
\* when the record has no such key.
CompanyCodes == {<<>>, <<1>>, <<1, 2>>}
CompanyLists ==
    UNION {[1..n -> CompanyCodes] : n \in 0..MaxCompanies}

\* "allowed_companies": missing, JSON null, or a list of tenant records.
CmpAbsent == [type |-> "absent", items |-> <<>>]
CmpNull == [type |-> "null", items |-> <<>>]
CmpList(l) == [type |-> "list", items |-> l]
CompanyFields == {CmpAbsent, CmpNull} \cup {CmpList(l) : l \in CompanyLists}

\* The response body of the credential exchange: not JSON at all, or a JSON
\* object with (some of) the three fields.
NotJson == [json |-> FALSE, token |-> TokenAbsent,
            token_expiry_date |-> ExpAbsent, allowed_companies |-> CmpAbsent]
JsonBodies ==
    [json : {TRUE}, token : TokenFields,
     token_expiry_date : ExpiryFields, allowed_companies : CompanyFields]
Bodies == {NotJson} \cup JsonBodies

\* The bodies the session's specification draws from: every token and expiry
\* field, with the tenant field missing, null, empty, or the configured
\* tenant alone.
SessionBodies ==
    {b \in Bodies :
        b.allowed_companies \in
            {CmpAbsent, CmpNull, CmpList(<<>>), CmpList(<<cmpy_code>>)}}

\* The bodies the tenant specification draws from: every tenant field, with a
\* token that is there or not and one expiry timestamp.
TenantBodies ==
    {b \in Bodies :
        /\ b.token \in {TokenAbsent, "tokA"}
        /\ b.token_expiry_date = ExpIso(token_expire_offset + 1)}

(***************************************************************************)
(* APITokenData and the session's state.                                   *)
(***************************************************************************)
VARIABLES
    now,            \* datetime.now(), in seconds
    authorization,  \* session.headers["Authorization"], or NoHeader
    auth_data,      \* session._metadata["auth_data"], or NoAuthData
    last,           \* what the last call on the session did (history)
    pc,             \* per thread: where its verb call stands
    local,          \* per thread: authenticate's local variable auth_data
    chain,          \* per call through the transport: its request in flight
    attrs,          \* per object: _original_request_url and _original_auth
    upload,         \* a verb call that may carry files, and its file handles
    verb,           \* a verb call that may carry a data payload
    resp,           \* the response envelope a verb call has built
    pr,             \* a PaginatedResult and its pager
    pd,             \* a PatchableDict and what was last done with it
    conv,           \* a date and time string and what parsing it gave
    req             \* the keywords of a request and its headers

sessionVars == <<now, authorization, auth_data, last, pc, local>>
redirectVars == <<chain, attrs>>
engineVars == <<upload, verb, resp, pr>>
utilVars == <<pd, conv, req>>
vars == <<now, authorization, auth_data, last, pc, local, chain, attrs,
          upload, verb, resp, pr, pd, conv, req>>

NoHeader == [scheme |-> "", token |-> ""]
Bearer(tok) == [scheme |-> "Bearer", token |-> tok]

NoAuthData ==
    [present |-> FALSE, token |-> "", token_expiry_date |-> NoneDate,
     allowed_companies |-> CmpNull]

\* APITokenData.convert_token_expire_date: a datetime is returned as it is, a
\* string goes through datetime.fromisoformat (Z read as +00:00, which makes
\* the value timezone aware; ValueError when it is no ISO timestamp), and
\* for any other value the method falls off its end and returns None.
convert_token_expire_date(v) ==
    IF v.type = "str"
    THEN CASE v.fmt = "iso" -> [raised |-> FALSE, val |-> NaiveDate(v.t)]
           [] v.fmt = "isoZ" -> [raised |-> FALSE, val |-> AwareDate(v.t)]
           [] OTHER -> [raised |-> TRUE, val |-> NoneDate]
    ELSE [raised |-> FALSE, val |-> NoneDate]

\* APISession._make_token: KeyError for a missing key and ValueError from
\* __post_init__ become ValueError("Invalid token structure"); no field's
\* type is checked.
make_token(data) ==
    IF \/ data.token = TokenAbsent
       \/ data.token_expiry_date.type = "absent"
       \/ data.allowed_companies.type = "absent"
    THEN [raised |-> TRUE, val |-> NoAuthData]
    ELSE LET d == convert_token_expire_date(data.token_expiry_date)
         IN  IF d.raised
             THEN [raised |-> TRUE, val |-> NoAuthData]
             ELSE [raised |-> FALSE,
                   val |-> [present |-> TRUE, token |-> data.token,
                            token_expiry_date |-> d.val,
                            allowed_companies |-> data.allowed_companies]]

\* APISession.has_token
has_token(hdr) == hdr # NoHeader

\* APISession.token_expired: "True", "False", or "TypeError" (None minus a
\* timedelta; an aware datetime compared with the naive datetime.now()).
token_expired(ad, t) ==
    IF ~ad.present THEN "True"
    ELSE IF ad.token_expiry_date.kind # "naive" THEN "TypeError"
    ELSE LET adjusted_expire_time == ad.token_expiry_date.t - token_expire_offset
         IN  IF ~(adjusted_expire_time <= t) THEN "True" ELSE "False"

\* APISession.authenticated: has_token and not token_expired
authenticated(hdr, ad, t) ==
    IF ~has_token(hdr) THEN "False"
    ELSE CASE token_expired(ad, t) = "True" -> "False"
           [] token_expired(ad, t) = "False" -> "True"
           [] OTHER -> "TypeError"

\* Python's  a in b  on strings.
IsSubstring(a, b) ==
    \E i \in 0..(Len(b) - Len(a)) : SubSeq(b, i + 1, i + Len(a)) = a

\* APISession.valid_company_code: the loop returns in its first iteration.
valid_company_code(ad) ==
    IF ad.present /\ ad.allowed_companies.type = "list"
          /\ Len(ad.allowed_companies.items) > 0
    THEN IsSubstring(cmpy_code, ad.allowed_companies.items[1])
    ELSE FALSE

\* APISession.authenticate, from the response body of requests.post to what
\* the session holds afterwards: APIAuthenticationException leaves the
\* session as it was, success writes the header and then the metadata.
authenticate_forgets_metadata(hdr, ad, body) ==
    LET made == IF body.json THEN make_token(body)
                ELSE [raised |-> TRUE, val |-> NoAuthData]
    IN  IF made.raised
        THEN [raised |-> TRUE, authorization |-> hdr, auth_data |-> ad]
        ELSE [raised |-> FALSE, authorization |-> Bearer(made.val.token),
              auth_data |-> ad]

authenticate_drops_token_on_failure(hdr, ad, body) ==
    LET made == IF body.json THEN make_token(body)
                ELSE [raised |-> TRUE, val |-> NoAuthData]
    IN  IF made.raised
        THEN [raised |-> TRUE, authorization |-> NoHeader,
              auth_data |-> NoAuthData]
        ELSE [raised |-> FALSE, authorization |-> Bearer(made.val.token),
              auth_data |-> made.val]

authenticate(hdr, ad, body) ==
    LET made == IF body.json THEN make_token(body)
                ELSE [raised |-> TRUE, val |-> NoAuthData]
    IN  IF made.raised
        THEN [raised |-> TRUE, authorization |-> hdr, auth_data |-> ad]
        ELSE [raised |-> FALSE, authorization |-> Bearer(made.val.token),
              auth_data |-> made.val]

(***************************************************************************)
(* What the specification says of a response body and of a session, for    *)
(* the history variable.                                                   *)
(***************************************************************************)
\* The body is valid JSON and has the three fields, the token a string, the
\* expiry a timestamp string, the tenants a list.
WellFormed(body) ==
    /\ body.json
    /\ body.token \in TokenStrings
    /\ body.token_expiry_date.type = "str"
    /\ body.token_expiry_date.fmt \in {"iso", "isoZ"}
    /\ body.allowed_companies.type = "list"

\* The stored expiry is a point in time that can be compared with the clock.
Comparable(ad) == ad.present /\ ad.token_expiry_date.kind = "naive"

\* The clock is past the token's expiry minus the offset.
PastAdjustedExpiry(ad, t) ==
    t > ad.token_expiry_date.t - token_expire_offset

NoCall ==
    [op |-> "none", result |-> "none", exchanges |-> 0, transport |-> FALSE,
     malformed |-> FALSE, pre_token |-> FALSE, pre_comparable |-> FALSE,
     pre_past |-> FALSE]

(***************************************************************************)
(* PreserveAuthenticationAdapter: URLs, request objects and their          *)
(* redirect-tracking attributes.                                           *)
(***************************************************************************)
\* A URL by the parts urlparse gives: port 0 stands for no port in the URL.
Schemes == {"https", "http"}
Hosts == {"a", "A", "b"}
Ports == {0, 443, 8443}
Urls == [scheme : Schemes, host : Hosts, port : Ports]
Url(s, h, p) == [scheme |-> s, host |-> h, port |-> p]

\* str.lower() on the host names of the model.
Lower(h) == IF h = "A" THEN "a" ELSE h

\* PreserveAuthenticationAdapter._parse_origin
parse_origin(url) ==
    LET scheme == url.scheme
        hostname == Lower(url.host)
        port == IF url.port # 0 THEN url.port
                ELSE IF scheme = "http" THEN 80
                ELSE IF scheme = "https" THEN 443
                ELSE 0
    IN  <<scheme, hostname, port>>

\* PreserveAuthenticationAdapter._is_same_origin
is_same_origin_ignoring_port(url_1, url_2) ==
    /\ parse_origin(url_1)[1] = parse_origin(url_2)[1]
    /\ parse_origin(url_1)[2] = parse_origin(url_2)[2]

is_same_origin(url_1, url_2) == parse_origin(url_1) = parse_origin(url_2)

\* The two attributes send() keeps on a request object; has is hasattr().
NoAttrs == [has |-> FALSE, original_request_url |-> Url("https", "a", 0),
            original_auth |-> NoHeader]

\* send(), lines 95 to 104, before the request goes out: what the attributes
\* and the request's Authorization header become.
send_before(url, auth, a) ==
    LET stored == IF ~a.has
                  THEN [has |-> TRUE, original_request_url |-> url,
                        original_auth |-> auth]
                  ELSE a
        restore == /\ url # stored.original_request_url
                   /\ stored.original_auth # NoHeader
                   /\ auth = NoHeader
                   /\ is_same_origin(stored.original_request_url, url)
    IN  [attrs |-> stored,
         auth |-> IF restore THEN stored.original_auth ELSE auth]

\* send(), lines 109 to 112, once the response is there.
send_after(is_redirect, a) == IF ~is_redirect THEN NoAttrs ELSE a

\* The calls in flight through the session's transport, and the object that
\* holds the attributes of call c's request: the request object itself.
Chains == {1, 2}
adapter == 0
AttrOwnerAdapter(c) == adapter
AttrOwner(c) == c

\* The bearer token call c's first request carries, when it carries one.
ChainToken(c) == IF c = 1 THEN "tokA" ELSE "tokB"

NoRequest ==
    [stage |-> "idle", reuse |-> FALSE, followup |-> FALSE,
     url0 |-> Url("https", "a", 0), auth0 |-> NoHeader,
     url |-> Url("https", "a", 0), auth |-> NoHeader,
     pre_auth |-> NoHeader, via |-> ""]

RedirectInit ==
    /\ chain = [c \in Chains |-> NoRequest]
    /\ attrs = [o \in Chains \cup {adapter} |-> NoAttrs]

(***************************************************************************)
(* Files of a verb call (the "files" keyword) and their handles.           *)
(***************************************************************************)
MaxFiles == 3
FileKeys == 1..MaxFiles

\* The files value: a dict, or another truthy container (a list of pairs).
\* Its entries, in their order:
\*   "named"  - a tuple (filename, file_obj, mime_type) or (filename, file_obj)
\*   "field"  - a tuple (None, text), as FileUpload.as_dict gives "file_name"
\*   "handle" - a bare file object, which requests accepts as well
\*   "absent" - no entry at this position
FilesValues ==
    [is_dict : BOOLEAN,
     items : [FileKeys -> {"named", "field", "handle", "absent"}]]

\* FileUpload.as_dict(): the name field, then the opened file.
as_dict ==
    [is_dict |-> TRUE,
     items |-> [k \in FileKeys |->
                   IF k = 1 THEN "field" ELSE IF k = 2 THEN "named" ELSE "absent"]]

\* bool(req_kw.get("files")): a container is truthy when it has an entry.
has_files(f) == \E k \in FileKeys : f.items[k] # "absent"

\* The entry carries a file-like object.
holds_file(item) == item \in {"named", "handle"}

\* The handles as the caller opened them.
OpenHandles(f) ==
    [k \in FileKeys |-> IF holds_file(f.items[k]) THEN "open" ELSE "none"]

\* The loop of upload_context's finally clause, from entry k on: len(item)
\* raises TypeError on a bare file object, item[1] of a "field" is a string
\* and has no close.
RECURSIVE close_from(_, _, _)
close_from(items, handles, k) ==
    IF k > MaxFiles THEN [raised |-> "", handles |-> handles]
    ELSE IF items[k] = "handle" THEN [raised |-> "TypeError", handles |-> handles]
    ELSE IF items[k] = "named"
         THEN close_from(items, [handles EXCEPT ![k] = "closed"], k + 1)
         ELSE close_from(items, handles, k + 1)

\* prepare_file_upload(files): upload_context has no yield, so it is a plain
\* function: calling it runs its body, the closing loop included, and the
\* context manager object is built around its return value None.
prepare_file_upload(f, handles) ==
    IF ~f.is_dict
    THEN [raised |-> "ValueError", handles |-> handles]
    ELSE close_from(f.items, handles, 1)

UploadIdle ==
    [pc |-> "idle",
     files |-> [is_dict |-> TRUE, items |-> [k \in FileKeys |-> "absent"]],
     handles |-> [k \in FileKeys |-> "none"],
     result |-> "", entered |-> FALSE, sent |-> "no"]

(***************************************************************************)
(* The data payload of a verb call and the JSON patch of a PatchableDict.  *)
(***************************************************************************)
MaxKeys == 2
PatchKeys == 1..MaxKeys

\* A JSON value has one shape at every depth: a scalar (s is its JSON
\* text), a mapping (m, by key), a sequence (l), or the mark of a key that
\* is not in its mapping. The keys are numbered in their sorted order.
Value(kind, s, m, l) == [kind |-> kind, s |-> s, m |-> m, l |-> l]
Scalar(s) == Value("scalar", s, <<>>, <<>>)
Missing == Value("missing", "", <<>>, <<>>)

\* A flat mapping: each key holds a scalar or is not in the mapping.
Mappings == [PatchKeys -> {Scalar("x"), Scalar("y"), Missing}]
EmptyMapping == [k \in PatchKeys |-> Missing]

\* What a nested mapping or a sequence holds, and the trees of depth two
\* built from them: 1 and True are the two scalars Python holds equal.
Leaves == {Scalar("x"), Scalar("True")}
ItemValues ==
    {Scalar("x"), Scalar("1"), Scalar("True"),
     Value("mapping", "", EmptyMapping, <<>>), Value("sequence", "", <<>>, <<>>)}
Contents ==
    {EmptyMapping,
     [k \in PatchKeys |-> IF k = 1 THEN Scalar("1") ELSE Missing],
     [k \in PatchKeys |->
         IF k = 1
         THEN Value("mapping", "", [j \in PatchKeys |-> Scalar("x")], <<>>)
         ELSE Value("sequence", "", <<Scalar("x")>>, <<>>)]}

\* a == b as Python evaluates it on decoded JSON: True == 1, mappings by
\* key and sequences by position.
RECURSIVE eq(_, _)
eq(a, b) ==
    CASE a.kind = "scalar" /\ b.kind = "scalar" ->
             a.s = b.s \/ {a.s, b.s} = {"1", "True"}
      [] a.kind = "mapping" /\ b.kind = "mapping" ->
             \A k \in PatchKeys : eq(a.m[k], b.m[k])
      [] a.kind = "sequence" /\ b.kind = "sequence" ->
             /\ Len(a.l) = Len(b.l)
             /\ \A i \in 1..Len(a.l) : eq(a.l[i], b.l[i])
      [] OTHER -> a.kind = b.kind

\* The "data" keyword of a call, by kind:
\*   "none"      - None
\*   "tracked"   - a PatchableDict, with its snapshot and its present contents
\*   "dict"      - a plain dict
\*   "str"       - a string the caller serialised
\*   "patch_str" - the text json.dumps gives for a list of patch operations
DataValue(kind, snap, cur, ops) ==
    [kind |-> kind, snapshot |-> snap, current |-> cur, ops |-> ops]
NoData == DataValue("none", EmptyMapping, EmptyMapping, <<>>)

DataPayloads ==
    {NoData, DataValue("str", EmptyMapping, EmptyMapping, <<>>)}
        \cup {DataValue("tracked", a, b, <<>>) : a \in Mappings, b \in Mappings}
        \cup {DataValue("dict", EmptyMapping, b, <<>>) : b \in Mappings}

\* bool(data): None and an empty mapping are falsy.
truthy(data) ==
    CASE data.kind = "none" -> FALSE
      [] data.kind \in {"tracked", "dict"} -> data.current # EmptyMapping
      [] OTHER -> TRUE

\* _json_diff: nothing for equal values; for two mappings the removals, the
\* additions and then the keys in both, each group in sorted key order; for
\* two sequences, and for anything else, a test of the old value and a
\* replace by the new one. A path is the sequence of its keys.
RECURSIVE _json_diff(_, _, _)

RECURSIVE removals(_, _, _, _)
removals(a, b, path, k) ==
    IF k > MaxKeys THEN <<>>
    ELSE (IF a[k] # Missing /\ b[k] = Missing
          THEN <<[op |-> "test", path |-> path \o <<k>>, value |-> a[k]],
                 [op |-> "remove", path |-> path \o <<k>>, value |-> Missing]>>
          ELSE <<>>) \o removals(a, b, path, k + 1)

RECURSIVE additions(_, _, _, _)
additions(a, b, path, k) ==
    IF k > MaxKeys THEN <<>>
    ELSE (IF a[k] = Missing /\ b[k] # Missing
          THEN <<[op |-> "add", path |-> path \o <<k>>, value |-> b[k]]>>
          ELSE <<>>) \o additions(a, b, path, k + 1)

RECURSIVE replacements(_, _, _, _)
replacements(a, b, path, k) ==
    IF k > MaxKeys THEN <<>>
    ELSE (IF a[k] # Missing /\ b[k] # Missing
          THEN _json_diff(a[k], b[k], path \o <<k>>)
          ELSE <<>>) \o replacements(a, b, path, k + 1)

_json_diff(a, b, path) ==
    IF eq(a, b) THEN <<>>
    ELSE IF a.kind = "mapping" /\ b.kind = "mapping"
    THEN removals(a.m, b.m, path, 1) \o additions(a.m, b.m, path, 1)
             \o replacements(a.m, b.m, path, 1)
    ELSE <<[op |-> "test", path |-> path, value |-> a],
           [op |-> "replace", path |-> path, value |-> b]>>

\* PatchableDict: the snapshot is a deep copy, so it shares no container
\* with the contents; as_json_patch, as_patch_str and update_snapshot.
PatchableDict(c) == DataValue("tracked", c, c, <<>>)
as_json_patch(d) ==
    _json_diff(Value("mapping", "", d.snapshot, <<>>),
               Value("mapping", "", d.current, <<>>), <<>>)
as_patch_str(d) ==
    DataValue("patch_str", EmptyMapping, EmptyMapping, as_json_patch(d))
update_snapshot_keeps_old(d) == d
update_snapshot(d) == [d EXCEPT !.snapshot = d.current]

Methods == {"get", "post", "put", "patch", "delete"}

\* Lines 37 and 43-50 of wrapped_fn: what req_kw["data"] holds when the
\* transport is called. Only a PatchableDict has as_patch_str.
request_data(method, data) ==
    IF truthy(data) /\ method = "patch" /\ data.kind = "tracked"
    THEN as_patch_str(data)
    ELSE data

NoVerb == [pc |-> "idle", method |-> "get", data |-> NoData, body |-> NoData]

(***************************************************************************)
(* Date and time strings and their parsed values (datetime_utils.py).      *)
(***************************************************************************)
\* DateTimeFormats.ms_precision.
ms_precision == 3

\* How many digits of a fraction of a second a datetime keeps.
MicroDigits == 6

\* The fractions of at most n digits, written with the digits 0 and 7.
RECURSIVE DigitStrings(_)
DigitStrings(n) ==
    IF n = 0 THEN {<<>>}
    ELSE DigitStrings(n - 1)
             \cup {Append(d, x) : d \in DigitStrings(n - 1), x \in {0, 7}}

\* A string value of a JSON field.
\*   kind   - "ts" a date with a time, "date" a date alone, "text" no date
\*   padded - month, day, hour, minute and second are written with two digits
\*   sep    - what separates the date from the time
\*   dot    - the seconds are followed by a dot
\*   frac   - the digits after the dot
\*   z      - the suffix: none, "Z" or "z"
Text == [kind |-> "text", padded |-> TRUE, sep |-> "", dot |-> FALSE,
         frac |-> <<>>, z |-> ""]
DateStr(padded) ==
    [kind |-> "date", padded |-> padded, sep |-> "", dot |-> FALSE,
     frac |-> <<>>, z |-> ""]
Strings ==
    {Text} \cup {DateStr(p) : p \in BOOLEAN}
        \cup {s \in [kind : {"ts"}, padded : BOOLEAN, sep : {"T", " "},
                      dot : BOOLEAN, frac : DigitStrings(MicroDigits),
                      z : {"", "Z", "z"}] :
                 ~s.dot => s.frac = <<>>}

\* DateTimeFormats.candidates, in their order.
Fmt(date, sep, f, z) == [date |-> date, sep |-> sep, f |-> f, z |-> z]
candidates ==
    <<Fmt(TRUE, "", FALSE, FALSE),
      Fmt(FALSE, "T", FALSE, FALSE), Fmt(FALSE, "T", FALSE, TRUE),
      Fmt(FALSE, "T", TRUE, FALSE), Fmt(FALSE, "T", TRUE, TRUE),
      Fmt(FALSE, " ", FALSE, FALSE), Fmt(FALSE, " ", FALSE, TRUE),
      Fmt(FALSE, " ", TRUE, FALSE), Fmt(FALSE, " ", TRUE, TRUE)>>

\* _clamp_ms_precision.
_clamp_ms_precision(n) == IF n < 0 THEN 0 ELSE IF n > 6 THEN 6 ELSE n

\* infer_ms_precision: the digits that follow the first dot.
infer_ms_precision(s) ==
    _clamp_ms_precision(IF s.dot THEN Len(s.frac) ELSE 0)

\* normalize_for_strptime: the string without its suffix, and had_z.
normalize_for_strptime(s) == [norm |-> [s EXCEPT !.z = ""], had_z |-> s.z # ""]

\* datetime.strptime(norm, fmt.removesuffix("Z")) does not raise: %f takes
\* one to six digits, a directive takes a number of one or two digits.
strptime_ok(norm, fmt) ==
    /\ norm.z = ""
    /\ IF fmt.date THEN norm.kind = "date"
       ELSE /\ norm.kind = "ts"
            /\ norm.sep = fmt.sep
            /\ norm.dot = fmt.f
            /\ norm.dot => Len(norm.frac) \in 1..6

\* The microsecond of the parsed datetime, as six digits.
RECURSIVE ljust(_, _)
ljust(digits, n) == IF Len(digits) >= n THEN digits ELSE ljust(Append(digits, 0), n)
microsecond(norm) == ljust(norm.frac, MicroDigits)

\* iso_timestamp_ptn.match(dt).
iso_timestamp_ptn(s) ==
    s.kind = "ts" /\ s.padded /\ s.sep = "T" /\ s.z = "" /\ Len(s.frac) <= 6

\* A ParsedDatetime: the microsecond and the metadata of the parse.
ParsedDatetime(micro, fmt, prec, method, had_z) ==
    [microsecond |-> micro, fmt |-> fmt,
     ms_precision |-> _clamp_ms_precision(prec),
     parse_method |-> method, had_z |-> had_z]
NoDatetime ==
    ParsedDatetime(ljust(<<>>, MicroDigits), Fmt(FALSE, "", FALSE, FALSE), 0,
                   "", FALSE)

\* The loop over the formats of datetime_from_string, from format i on.
RECURSIVE first_format(_, _)
first_format(norm, i) ==
    IF i > Len(candidates) THEN 0
    ELSE IF strptime_ok(norm, candidates[i]) THEN i
    ELSE first_format(norm, i + 1)

\* datetime_from_string(dt, formats=candidates, fmt=fmt, ms_precision=prec),
\* where prec < 0 stands for None and a format without a date or a
\* separator for no format. A format of the caller is the only one tried:
\* strptime raises ValueError if it does not fit. When no candidate parses
\* the string but the pattern matches it, finalize is called with the local
\* variable parsed, which was never assigned.
datetime_from_string(dt, fmt, prec) ==
    LET n == normalize_for_strptime(dt)
        p == IF prec < 0 THEN infer_ms_precision(n.norm) ELSE prec
        i == first_format(n.norm, 1)
    IN  IF fmt # NoDatetime.fmt
        THEN IF strptime_ok(n.norm, fmt)
             THEN [raised |-> "",
                   value |-> ParsedDatetime(microsecond(n.norm), fmt, p,
                                            "manual", n.had_z)]
             ELSE [raised |-> "ValueError", value |-> NoDatetime]
        ELSE IF i > 0
        THEN [raised |-> "",
              value |-> ParsedDatetime(microsecond(n.norm), candidates[i], p,
                                       "strptime", n.had_z)]
        ELSE IF iso_timestamp_ptn(dt)
        THEN [raised |-> "UnboundLocalError", value |-> NoDatetime]
        ELSE [raised |-> "ValueError", value |-> NoDatetime]

\* ParsedDatetime.__str__ with a format: strfprecisetime with the format
\* without its Z, then "Z" if the parsed string had a suffix.
datetime_str(d) ==
    IF d.fmt.date THEN DateStr(TRUE)
    ELSE [kind |-> "ts", padded |-> TRUE, sep |-> d.fmt.sep, dot |-> d.fmt.f,
          frac |-> IF d.fmt.f THEN SubSeq(d.microsecond, 1, d.ms_precision)
                   ELSE <<>>,
          z |-> IF d.had_z THEN "Z" ELSE ""]

\* A decoded JSON value: a string, a number or a ParsedDatetime.
StrValue(s) == [type |-> "str", s |-> s, dt |-> NoDatetime]
NumValue == [type |-> "number", s |-> Text, dt |-> NoDatetime]

\* parse_datetime_from_json_value: ValueError and TypeError are caught and
\* the value is returned as it came.
parse_datetime_from_json_value(v, prec) ==
    IF v.type # "str" THEN [raised |-> "", value |-> v]
    ELSE LET r == datetime_from_string(v.s, NoDatetime.fmt, prec)
         IN  IF r.raised = "" THEN [raised |-> "",
                                       value |-> [type |-> "ParsedDatetime",
                                                  s |-> Text, dt |-> r.value]]
             ELSE IF r.raised = "ValueError" THEN [raised |-> "", value |-> v]
             ELSE [raised |-> r.raised, value |-> v]

\* Field names: k.casefold() in field_candidates.
FieldNames == {"update_on", "Update_On", "name"}
casefold(k) == IF k = "Update_On" THEN "update_on" ELSE k
field_candidates == {"update_on", "dob"}

\* datetime_obj_hook on an object with the one field k: v.
datetime_obj_hook(k, v) ==
    IF casefold(k) \in field_candidates
    THEN parse_datetime_from_json_value(v, ms_precision)
    ELSE [raised |-> "", value |-> v]

(***************************************************************************)
(* The raw response and the response envelope (response.py).               *)
(***************************************************************************)
MaxTop == 2

\* The status codes a server answers with.
Statuses == {100, 101, 199, 200, 204, 301, 399, 400, 404, 405, 499, 500, 503,
             599, 600, 999}

DEFAULT_SAFE_HTTP_OK == 200..399

\* The safe_statuses keyword: None (no codes), a few codes, or every code
\* below 999 as download passes it.
SafeChoices == {{}, {404}, {404, 405}, {100}, {600}, {200}, {100, 600}, 0..998}

\* The $top parameter of the response's URL: a number, or not in the URL.
NoTop == -1

\* The decoded JSON body:
\*   shape "array"  - an array of len objects, each with the field key: value
\*   shape "object" - an object of len fields, the first one key: value
\*   shape "number" - a number
Payload(shape, len, key, value) ==
    [shape |-> shape, len |-> len, key |-> key, value |-> value]

Raw(status, json, url_top, payload) ==
    [status_code |-> status, has_json |-> json, url_top |-> url_top,
     payload |-> payload]

\* Responses that differ in their status.
StatusResponses ==
    {Raw(st, TRUE, 1, Payload("array", 0, "name", NumValue)) : st \in Statuses}

\* Successful responses that differ in content type, $top and body shape.
ShapeResponses ==
    {Raw(200, j, t, Payload(sh, n, "name", NumValue)) :
        j \in BOOLEAN, t \in {NoTop} \cup 1..MaxTop,
        sh \in {"array", "object", "number"}, n \in 0..MaxTop}

\* Successful responses with one record that has one field.
FieldResponses ==
    {Raw(200, TRUE, 1, Payload(sh, 1, k, v)) :
        sh \in {"array", "object"}, k \in FieldNames,
        v \in {NumValue} \cup {StrValue(x) : x \in Strings}}

\* APIResponse.__init__: the safe set.
safe_statuses(safe) == DEFAULT_SAFE_HTTP_OK \cup safe

\* APIResponse.resp_ok.
resp_ok(e) == e.r.status_code \in e.safe_statuses

\* APIResponse.raise_for_status: an error message is built for 4xx and 5xx
\* only, and nothing is raised without a message.
raise_for_status(e) ==
    IF ~resp_ok(e) /\ (\/ (400 <= e.r.status_code /\ e.r.status_code < 500)
                       \/ (500 <= e.r.status_code /\ e.r.status_code < 600))
    THEN "HTTPError"
    ELSE ""

\* APIResponse._has_more(): len() of the decoded body against $top of the
\* response's URL. len() of a number raises TypeError, a URL without $top
\* gives KeyError.
_has_more(e) ==
    IF ~e.r.has_json THEN "False"
    ELSE IF e.r.payload.shape = "number" THEN "TypeError"
    ELSE IF e.r.url_top = NoTop THEN "KeyError"
    ELSE IF e.r.payload.len = e.r.url_top THEN "True"
    ELSE "False"

\* APIResponse.data: the decoded body with the hook applied to each object.
NoDataYet == [state |-> "unset", shape |-> "array", len |-> 0, key |-> "name",
              value |-> NumValue]
data(e) ==
    LET b == e.r.payload
        h == datetime_obj_hook(b.key, b.value)
    IN  IF ~e.r.has_json THEN [NoDataYet EXCEPT !.state = "cached"]
        ELSE IF b.shape = "number" \/ b.len = 0
        THEN [state |-> "cached", shape |-> b.shape, len |-> b.len,
              key |-> b.key, value |-> b.value]
        ELSE IF h.raised # ""
        THEN [NoDataYet EXCEPT !.state = h.raised]
        ELSE [state |-> "cached", shape |-> b.shape, len |-> b.len,
              key |-> b.key, value |-> h.value]

NoResponse ==
    [pc |-> "idle",
     r |-> Raw(200, FALSE, NoTop, Payload("array", 0, "name", NumValue)),
     safe |-> {}, safe_statuses |-> {},
     has_more |-> "unset", data |-> NoDataYet]

(***************************************************************************)
(* Pagination: paginate and its pager (worker.py), Page and                *)
(* PaginatedResult (models.py).                                            *)
(***************************************************************************)
MaxPages == 3
MaxRuns == 2

\* top, offset, skip = 100, 100, 0
top == 100
offset == 100
skip == 0

\* kwargs["params"]: "$top" and "$skip" as the caller gave them, or the
\* defaults that setdefault puts in.
CallerParams == [top : {top, 2}, skip : {skip, 5}]

\* How many records a server puts in a page when asked for at most t.
PageSizes(t) == {n \in {0, 1, 37, 40, t} : n <= t}

\* The envelope _get returns for a page of n records asked with $top=t.
PageResponse(t, n) ==
    [NoResponse EXCEPT
        !.pc = "returned",
        !.r = Raw(200, TRUE, t, Payload("array", n, "name", NumValue)),
        !.safe_statuses = safe_statuses({})]

\* Page(response=resp, offset=current_skip, top=page_top, page_num=page);
\* run tells which run of the pager fetched the page.
Page(response, current_skip, page_top, page, run) ==
    [response |-> response.r, offset |-> current_skip, top |-> page_top,
     page_num |-> page, run |-> run]

\* Page.data: the records of the response, here the records that follow the
\* first current_skip ones, as the server had them at that run.
page_data(pg) ==
    [i \in 1..pg.response.payload.len |-> [id |-> pg.offset + i, run |-> pg.run]]

\* The test that ends the pager's loop: if not resp.has_more: break.
pager_stops_when_empty(e) == e.r.payload.len = 0
pager_stops(e) == _has_more(e) # "True"

\* The caches of a PaginatedResult: None, or a list.
None == [some |-> FALSE, list |-> <<>>]
Some(l) == [some |-> TRUE, list |-> l]

\* if self._pages_cache is None.
pages_never_cached(p) == FALSE
pages_cached(p) == p.pages_cache.some

\* PaginatedResult.results: the records of every page, in page order.
RECURSIVE results(_)
results_of_first_page(pgs) == IF pgs = <<>> THEN <<>> ELSE page_data(Head(pgs))
results(pgs) ==
    IF pgs = <<>> THEN <<>> ELSE page_data(Head(pgs)) \o results(Tail(pgs))

\* PaginatedResult.refresh_cache.
refresh_cache_pages_only(p) == [p EXCEPT !.pages_cache = None]
refresh_cache(p) == [p EXCEPT !.data_cache = None, !.pages_cache = None]

\* What an access gave the caller.
Returned(kind, l) == [kind |-> kind, list |-> l]

\* _get raises inside the pager: list() in pages is left with the error,
\* the pages it had drawn are dropped with it and no cache is assigned.
pager_raises_keeping_pages(p, err) ==
    [p EXCEPT !.pc = "idle", !.pages_cache = Some(p.collected),
              !.collected = <<>>, !.gets = p.gets + 1,
              !.returned = Returned(err, <<>>)]
pager_raises(p, err) ==
    [p EXCEPT !.pc = "idle", !.collected = <<>>, !.gets = p.gets + 1,
              !.returned = Returned(err, <<>>)]

\* A PaginatedResult, the position of its pager, and what its last
\* operation was and gave (history).
NoPager ==
    [made |-> FALSE, top |-> top, skip |-> skip,
     pages_cache |-> None, data_cache |-> None,
     pc |-> "idle", op |-> "", current_skip |-> 0, page |-> 0,
     collected |-> <<>>,
     runs |-> 0, gets |-> 0, refreshed_at |-> 0,
     last_op |-> "", returned |-> Returned("none", <<>>)]

\* A PatchableDict in the hands of a caller: op is what was done last,
\* patch and body what as_json_patch and a PATCH call last produced.
MaxEdits == 2
NoPatchable ==
    [made |-> FALSE, obj |-> PatchableDict(EmptyMapping), edits |-> 0,
     op |-> "", patch |-> <<>>, body |-> NoData]

\* The contents one mutation away from c: d[k] = v, del d[k], d[k][j] = v,
\* del d[k][j] and d[k].append(v).
Edits(c) ==
    {[c EXCEPT ![k] = v] : k \in PatchKeys, v \in ItemValues}
        \cup {[c EXCEPT ![k] = Missing] : k \in {i \in PatchKeys : c[i] # Missing}}
        \cup {[c EXCEPT ![k].m[j] = v] :
                 k \in {i \in PatchKeys : c[i].kind = "mapping"},
                 j \in PatchKeys, v \in Leaves \cup {Missing}}
        \cup {[c EXCEPT ![k].l = Append(@, v)] :
                 k \in {i \in PatchKeys : c[i].kind = "sequence"
                                             /\ Len(c[i].l) < MaxEdits},
                 v \in Leaves}

\* A call of datetime_from_string or of datetime_obj_hook: the string, the
\* format and the field the caller gave, and what the call gave back.
CallerFormats == {NoDatetime.fmt, candidates[1], candidates[2], candidates[9]}
NoParse ==
    [op |-> "", s |-> Text, fmt |-> NoDatetime.fmt, key |-> "",
     arg |-> NumValue,
     parsed |-> [raised |-> "", value |-> NoDatetime],
     hooked |-> [raised |-> "", value |-> NumValue]]
\* The keywords of a call. For create: the keys of the payload and
\* validate_keys (given is false for None). For set_content_type_header:
\* the method, the "files" keyword ("absent" when the key is not in req_kw)
\* and the headers, before and after, by header name.
AttrNames == {"code", "name"}
ValidateKeys ==
    {[given |-> FALSE, keys |-> {}]}
        \cup {[given |-> TRUE, keys |-> K] : K \in SUBSET AttrNames}
Unset == "<unset>"
HeaderNames == {"Content-Type", "content-type"}
CallerHeaders ==
    {h \in [HeaderNames -> {Unset, "application/json", "text/plain"}] :
        h["content-type"] # "application/json"}
FilesKeywords == {"absent", "None", "empty", "files"}
HeaderMethods == Methods \cup {"PATCH"}
NoReqKw ==
    [op |-> "", method |-> "", files |-> "absent",
     prior |-> [n \in HeaderNames |-> Unset],
     headers |-> [n \in HeaderNames |-> Unset],
     payload |-> {}, validate_keys |-> [given |-> FALSE, keys |-> {}]]

\* raise_for_reqd_attrs raises ValueError: some required attribute is not a
\* key of the object.
raise_for_reqd_attrs_if_all_missing(obj, reqd_attrs) ==
    reqd_attrs # {} /\ reqd_attrs \cap obj = {}
raise_for_reqd_attrs(obj, reqd_attrs) ==
    {k \in reqd_attrs : k \notin obj} # {}

\* set_content_type_header: the headers of req_kw afterwards. The test is
\* for the key "files" in req_kw, whatever its value, and the method is
\* compared as it was given.
set_content_type_header(method, files, headers) ==
    IF files # "absent" THEN [headers EXCEPT !["Content-Type"] = Unset]
    ELSE IF method = "patch"
    THEN [headers EXCEPT !["Content-Type"] = "application/json-patch+json"]
    ELSE IF method \in {"post", "put"}
    THEN [headers EXCEPT !["Content-Type"] = "application/json"]
    ELSE [headers EXCEPT !["Content-Type"] =
                 IF @ = Unset THEN "application/json" ELSE @]


Threads == {1, 2}

SessionInit ==
    /\ now = 0
    /\ authorization = NoHeader
    /\ auth_data = NoAuthData
    /\ last = NoCall
    /\ pc = [t \in Threads |-> "idle"]
    /\ local = [t \in Threads |-> NoAuthData]

Init ==
    /\ SessionInit
    /\ RedirectInit
    /\ upload = UploadIdle
    /\ verb = NoVerb
    /\ resp = NoResponse
    /\ pr = NoPager
    /\ pd = NoPatchable
    /\ conv = NoParse
    /\ req = NoReqKw

(***************************************************************************)
(* One caller at a time: each call on the session runs to its end.         *)
(***************************************************************************)
\* Time passes.
Tick ==
    /\ now < MaxTime
    /\ now' = now + 1
    /\ UNCHANGED <<authorization, auth_data, last, pc, local, redirectVars, engineVars, utilVars>>

\* session.authenticate() called by the user.
Authenticate(B) ==
    \E body \in B :
        LET r == authenticate(authorization, auth_data, body)
        IN  /\ authorization' = r.authorization
            /\ auth_data' = r.auth_data
            /\ last' = [NoCall EXCEPT
                    !.op = "authenticate",
                    !.result = IF r.raised THEN "APIAuthenticationException"
                               ELSE "ok",
                    !.exchanges = 1,
                    !.malformed = ~WellFormed(body)]
            /\ UNCHANGED <<now, pc, local, redirectVars, engineVars, utilVars>>

\* What a verb call finds at its start, for the history variable.
CallStart ==
    [NoCall EXCEPT
        !.op = "verb",
        !.pre_token = has_token(authorization),
        !.pre_comparable = Comparable(auth_data),
        !.pre_past = Comparable(auth_data) /\ PastAdjustedExpiry(auth_data, now)]

\* request.wrapped_fn, the body of _get, _post, _put, _patch and _delete: the
\* method is first read after the authentication, so the five verbs are one
\* action here.
wrapped_fn(B) ==
    \/ /\ authenticated(authorization, auth_data, now) = "TypeError"
       /\ last' = [CallStart EXCEPT !.result = "TypeError"]
       /\ UNCHANGED <<authorization, auth_data>>
    \/ /\ authenticated(authorization, auth_data, now) = "True"
       /\ last' = [CallStart EXCEPT !.result = "ok", !.transport = TRUE]
       /\ UNCHANGED <<authorization, auth_data>>
    \/ /\ authenticated(authorization, auth_data, now) = "False"
       /\ \E body \in B :
             LET r == authenticate(authorization, auth_data, body)
             IN  /\ authorization' = r.authorization
                 /\ auth_data' = r.auth_data
                 /\ last' = [CallStart EXCEPT
                         !.result = IF r.raised
                                    THEN "APIAuthenticationException"
                                    ELSE "ok",
                         !.exchanges = 1,
                         !.transport = ~r.raised,
                         !.malformed = ~WellFormed(body)]

VerbCall(B) ==
    /\ wrapped_fn(B)
    /\ UNCHANGED <<now, pc, local, redirectVars, engineVars, utilVars>>

Next == Tick \/ Authenticate(SessionBodies) \/ VerbCall(SessionBodies)

Spec == Init /\ [][Next]_vars

\* The same session, fed every tenant list.
TenantNext == Tick \/ Authenticate(TenantBodies) \/ VerbCall(TenantBodies)

TenantSpec == Init /\ [][TenantNext]_vars

(***************************************************************************)
(* Two threads calling verbs on one session: requests.post and             *)
(* session.request block, and a thread switch can fall between any two     *)
(* statements of authenticate.                                             *)
(***************************************************************************)
\* The bodies the two-thread specification draws from: a body that is not
\* JSON, and well-formed ones with either token and either expiry.
ConcBodies ==
    {NotJson} \cup
    {b \in JsonBodies :
        /\ b.token \in TokenStrings
        /\ b.token_expiry_date \in {ExpIso(n) : n \in ExpiryTimes}
        /\ b.allowed_companies = CmpList(<<cmpy_code>>)}

\* wrapped_fn, worker.py line 30: if not self.session.authenticated
CallBegin(t) ==
    /\ pc[t] = "idle"
    /\ pc' = [pc EXCEPT ![t] =
            CASE authenticated(authorization, auth_data, now) = "False" -> "post"
              [] authenticated(authorization, auth_data, now) = "True" -> "request"
              [] OTHER -> "idle"]
    /\ UNCHANGED <<now, authorization, auth_data, last, local, redirectVars, engineVars, utilVars>>

\* authenticate, sessions.py lines 196 to 201: the exchange and _make_token.
ThreadExchange(t) ==
    /\ pc[t] = "post"
    /\ \E body \in ConcBodies :
          LET made == IF body.json THEN make_token(body)
                      ELSE [raised |-> TRUE, val |-> NoAuthData]
          IN  /\ pc' = [pc EXCEPT ![t] = IF made.raised THEN "idle" ELSE "header"]
              /\ local' = [local EXCEPT ![t] = made.val]
    /\ UNCHANGED <<now, authorization, auth_data, last, redirectVars, engineVars, utilVars>>

\* authenticate, sessions.py lines 204 and 205: self.headers.update(...)
ThreadSetHeader(t) ==
    /\ pc[t] = "header"
    /\ authorization' = Bearer(local[t].token)
    /\ pc' = [pc EXCEPT ![t] = "metadata"]
    /\ UNCHANGED <<now, auth_data, last, local, redirectVars, engineVars, utilVars>>

\* authenticate, sessions.py line 206: self._metadata["auth_data"] = auth_data
ThreadSetMetadata(t) ==
    /\ pc[t] = "metadata"
    /\ auth_data' = local[t]
    /\ pc' = [pc EXCEPT ![t] = "request"]
    /\ UNCHANGED <<now, authorization, last, local, redirectVars, engineVars, utilVars>>

\* wrapped_fn, worker.py lines 52 to 64: the transport call and the return.
ThreadRequest(t) ==
    /\ pc[t] = "request"
    /\ pc' = [pc EXCEPT ![t] = "idle"]
    /\ local' = [local EXCEPT ![t] = NoAuthData]
    /\ UNCHANGED <<now, authorization, auth_data, last, redirectVars, engineVars, utilVars>>

ConcNext ==
    \/ Tick
    \/ \E t \in Threads :
          \/ CallBegin(t)
          \/ ThreadExchange(t)
          \/ ThreadSetHeader(t)
          \/ ThreadSetMetadata(t)
          \/ ThreadRequest(t)

ConcSpec == Init /\ [][ConcNext]_vars

(***************************************************************************)
(* Requests through the transport.  session.request() prepares a request   *)
(* and sends it through the adapter mounted for its URL's scheme; on a     *)
(* redirect response it sends a follow-up request to the new URL.  The     *)
(* code of send() takes the follow-up to be the same request object (its   *)
(* attributes are still there); requests builds it as a copy of the        *)
(* request, which has the URL and headers and none of the attributes.      *)
(* Both are modelled: reuse says which one a call's transport does.        *)
(***************************************************************************)
\* session.request(method, url, ...): a new request object to an https URL of
\* the server, with the session's Authorization header if there is one.
NewRequest(c, U) ==
    /\ chain[c].stage = "idle"
    /\ \E u \in {x \in U : x.scheme = "https"},
          a \in {NoHeader, Bearer(ChainToken(c))}, r \in BOOLEAN :
          chain' = [chain EXCEPT ![c] =
              [NoRequest EXCEPT !.stage = "ready", !.reuse = r,
                                !.url0 = u, !.auth0 = a, !.url = u, !.auth = a]]
    /\ attrs' = [attrs EXCEPT ![c] = NoAttrs]
    /\ UNCHANGED <<sessionVars, engineVars, utilVars>>

\* PreserveAuthenticationAdapter.send up to super().send: the adapter is
\* mounted for https:// (APISession.__init__).
AdapterSend(c) ==
    /\ chain[c].stage = "ready"
    /\ chain[c].url.scheme = "https"
    /\ LET r == send_before(chain[c].url, chain[c].auth, attrs[AttrOwner(c)])
       IN  /\ attrs' = [attrs EXCEPT ![AttrOwner(c)] = r.attrs]
           /\ chain' = [chain EXCEPT ![c].stage = "sent", ![c].via = "adapter",
                                     ![c].pre_auth = chain[c].auth,
                                     ![c].auth = r.auth]
    /\ UNCHANGED <<sessionVars, engineVars, utilVars>>

\* An http:// URL goes out through the session's default adapter.
PlainSend(c) ==
    /\ chain[c].stage = "ready"
    /\ chain[c].url.scheme = "http"
    /\ chain' = [chain EXCEPT ![c].stage = "sent", ![c].via = "plain",
                              ![c].pre_auth = chain[c].auth]
    /\ UNCHANGED <<attrs, sessionVars, engineVars, utilVars>>

\* The attributes after the adapter that sent the request has seen the
\* response.
AfterResponse(c, is_redirect) ==
    IF chain[c].via = "adapter"
    THEN [attrs EXCEPT ![AttrOwner(c)] = send_after(is_redirect, @)]
    ELSE attrs

\* A final response: send() returns it, the call ends and its request object
\* is dropped.
ReceiveFinal(c) ==
    /\ chain[c].stage = "sent"
    /\ attrs' = [AfterResponse(c, FALSE) EXCEPT ![c] = NoAttrs]
    /\ chain' = [chain EXCEPT ![c] = NoRequest]
    /\ UNCHANGED <<sessionVars, engineVars, utilVars>>

\* A redirect response: the transport builds the follow-up request to the
\* new URL, with the Authorization header kept or left out, on the same
\* object or on a copy.
ReceiveRedirect(c, U) ==
    /\ chain[c].stage = "sent"
    /\ \E target \in U, keep \in BOOLEAN :
          chain' = [chain EXCEPT ![c].stage = "ready", ![c].followup = TRUE,
                                 ![c].url = target,
                                 ![c].auth = IF keep THEN chain[c].auth
                                             ELSE NoHeader]
    /\ attrs' = IF chain[c].reuse THEN AfterResponse(c, TRUE)
                ELSE [AfterResponse(c, TRUE) EXCEPT ![c] = NoAttrs]
    /\ UNCHANGED <<sessionVars, engineVars, utilVars>>

\* One call through the transport, over every URL of the model.
RedirectNext ==
    \/ NewRequest(1, Urls)
    \/ AdapterSend(1)
    \/ PlainSend(1)
    \/ ReceiveFinal(1)
    \/ ReceiveRedirect(1, Urls)

RedirectSpec == Init /\ [][RedirectNext]_vars

\* Two calls at once through the same session and adapter, over four URLs.
ConcUrls ==
    {Url("https", "a", 0), Url("https", "a", 443), Url("https", "b", 0),
     Url("http", "a", 0)}

RedirectConcNext ==
    \E c \in Chains :
        \/ NewRequest(c, ConcUrls)
        \/ AdapterSend(c)
        \/ PlainSend(c)
        \/ ReceiveFinal(c)
        \/ ReceiveRedirect(c, ConcUrls)

RedirectConcSpec == Init /\ [][RedirectConcNext]_vars

(***************************************************************************)
(* A verb call from the point where the files keyword is looked at         *)
(* (wrapped_fn, worker.py lines 52-64).                                    *)
(***************************************************************************)
\* A verb call with files=f: line 38 and the test of line 52.
VerbCallFiles(f) ==
    /\ upload.pc = "idle"
    /\ upload' = [UploadIdle EXCEPT
                     !.pc = IF has_files(f) THEN "prepare" ELSE "request",
                     !.files = f,
                     !.handles = OpenHandles(f)]
    /\ UNCHANGED <<sessionVars, redirectVars, verb, resp, pr,
                 utilVars>>

\* upload(fp=...): files is FileUpload(fp).as_dict(), then _post.
Upload ==
    /\ upload.pc = "idle"
    /\ upload' = [UploadIdle EXCEPT
                     !.pc = "prepare",
                     !.files = as_dict,
                     !.handles = OpenHandles(as_dict)]
    /\ UNCHANGED <<sessionVars, redirectVars, verb, resp, pr,
                 utilVars>>

\* Line 55, the expression of the with statement.
PrepareFileUpload ==
    /\ upload.pc = "prepare"
    /\ LET r == prepare_file_upload(upload.files, upload.handles)
       IN upload' = [upload EXCEPT
                        !.pc = IF r.raised = "" THEN "enter" ELSE "done",
                        !.result = r.raised,
                        !.handles = r.handles]
    /\ UNCHANGED <<sessionVars, redirectVars, verb, resp, pr,
                 utilVars>>

\* Line 55, entering the with statement: __enter__ calls next() on the value
\* upload_context returned, which is None, and TypeError leaves wrapped_fn.
EnterContext ==
    /\ upload.pc = "enter"
    /\ upload' = [upload EXCEPT !.pc = "done", !.result = "TypeError"]
    /\ UNCHANGED <<sessionVars, redirectVars, verb, resp, pr,
                 utilVars>>

\* Line 59: the transport call of a call without files.
RequestWithoutFiles ==
    /\ upload.pc = "request"
    /\ upload' = [upload EXCEPT
                     !.pc = "done", !.result = "response", !.sent = "nofiles"]
    /\ UNCHANGED <<sessionVars, redirectVars, verb, resp, pr,
                 utilVars>>

\* The call has returned or raised; the caller goes on.
UploadReturn ==
    /\ upload.pc = "done"
    /\ upload' = UploadIdle
    /\ UNCHANGED <<sessionVars, redirectVars, verb, resp, pr,
                 utilVars>>

UploadNext ==
    \/ \E f \in FilesValues : VerbCallFiles(f)
    \/ Upload
    \/ PrepareFileUpload
    \/ EnterContext
    \/ RequestWithoutFiles
    \/ UploadReturn

UploadSpec == Init /\ [][UploadNext]_vars

(***************************************************************************)
(* A verb call with a data payload (wrapped_fn, worker.py lines 36-59).    *)
(***************************************************************************)
\* The call up to the transport call of line 59.
VerbCallData(method, payload) ==
    /\ verb.pc = "idle"
    /\ verb' = [pc |-> "sent", method |-> method, data |-> payload,
                body |-> request_data(method, payload)]
    /\ UNCHANGED <<sessionVars, redirectVars, upload, resp, pr,
                 utilVars>>

\* The call is over.
VerbReturn ==
    /\ verb.pc = "sent"
    /\ verb' = NoVerb
    /\ UNCHANGED <<sessionVars, redirectVars, upload, resp, pr,
                 utilVars>>

VerbNext ==
    \/ \E method \in Methods, payload \in DataPayloads :
          VerbCallData(method, payload)
    \/ VerbReturn

VerbSpec == Init /\ [][VerbNext]_vars

(***************************************************************************)
(* The end of a verb call and the use of its envelope (worker.py lines     *)
(* 61-64, response.py).                                                    *)
(***************************************************************************)
\* Lines 61-64 of wrapped_fn for the raw response r of the transport and the
\* caller's safe_statuses: the envelope is returned or HTTPError is raised.
WrapResponse(R, S) ==
    /\ resp.pc = "idle"
    /\ \E r \in R, safe \in S :
          LET e == [NoResponse EXCEPT !.r = r, !.safe = safe,
                                      !.safe_statuses = safe_statuses(safe)]
          IN resp' = [e EXCEPT !.pc = IF raise_for_status(e) = "" THEN "returned"
                                      ELSE "raised"]
    /\ UNCHANGED <<sessionVars, redirectVars, upload, verb, pr,
                 utilVars>>

\* The caller reads has_more of the envelope.
HasMore ==
    /\ resp.pc = "returned"
    /\ resp' = [resp EXCEPT !.has_more = _has_more(resp)]
    /\ UNCHANGED <<sessionVars, redirectVars, upload, verb, pr,
                 utilVars>>

\* The caller reads data of the envelope: a cached property.
Data ==
    /\ resp.pc = "returned"
    /\ resp' = [resp EXCEPT
                   !.data = IF resp.data.state = "cached" THEN resp.data
                            ELSE data(resp)]
    /\ UNCHANGED <<sessionVars, redirectVars, upload, verb, pr,
                 utilVars>>

\* The caller lets go of the envelope or of the error.
ResponseDrop ==
    /\ resp.pc \in {"returned", "raised"}
    /\ resp' = NoResponse
    /\ UNCHANGED <<sessionVars, redirectVars, upload, verb, pr,
                 utilVars>>

StatusNext ==
    \/ WrapResponse(StatusResponses, SafeChoices)
    \/ ResponseDrop

StatusSpec == Init /\ [][StatusNext]_vars

EnvelopeNext ==
    \/ WrapResponse(ShapeResponses \cup FieldResponses, {{}})
    \/ HasMore
    \/ Data
    \/ ResponseDrop

EnvelopeSpec == Init /\ [][EnvelopeNext]_vars

(***************************************************************************)
(* Pagination: the operations on a PaginatedResult.                        *)
(***************************************************************************)
\* paginate(...) with params {"$top": t, "$skip": s}, or without them.
Paginate(t, s) ==
    /\ ~pr.made
    /\ pr' = [NoPager EXCEPT !.made = TRUE, !.top = t, !.skip = s,
                             !.last_op = "paginate"]
    /\ UNCHANGED <<sessionVars, redirectVars, upload, verb, resp,
                 utilVars>>

\* self._pager_func() is called and list() starts to draw from it: the
\* first lines of pager.
start_pager(p, op) ==
    [p EXCEPT !.pc = "get", !.op = op, !.current_skip = p.skip, !.page = 0,
              !.collected = <<>>, !.runs = p.runs + 1, !.gets = 0]

\* The rest of the accessor op once pages has its cache: pages returns an
\* iterator over the cache, results the records of the pages, data caches
\* these records and returns them.
complete(p, op) ==
    CASE op = "pages" ->
            [p EXCEPT !.returned = Returned("pages", p.pages_cache.list)]
      [] op = "results" ->
            [p EXCEPT !.returned =
                          Returned("records", results(p.pages_cache.list))]
      [] OTHER ->
            [p EXCEPT !.data_cache = Some(results(p.pages_cache.list)),
                      !.returned =
                          Returned("records", results(p.pages_cache.list))]

\* An access to pages, results (drawn to its end) or data: data returns
\* its cache if it has one, and pages runs the pager if it has no cache.
access(p, op) ==
    LET q == [p EXCEPT !.last_op = op, !.returned = Returned("none", <<>>)]
    IN  IF op = "data" /\ p.data_cache.some
        THEN [q EXCEPT !.returned = Returned("records", p.data_cache.list)]
        ELSE IF pages_cached(p) THEN complete(q, op)
        ELSE start_pager(q, op)

\* The caller is not inside another access, and the pager may run again.
can_access(op) ==
    /\ pr.made
    /\ pr.pc = "idle"
    /\ access(pr, op).pc = "get" => pr.runs < MaxRuns

Pages ==
    /\ can_access("pages")
    /\ pr' = access(pr, "pages")
    /\ UNCHANGED <<sessionVars, redirectVars, upload, verb, resp,
                 utilVars>>

Results ==
    /\ can_access("results")
    /\ pr' = access(pr, "results")
    /\ UNCHANGED <<sessionVars, redirectVars, upload, verb, resp,
                 utilVars>>

PagedData ==
    /\ can_access("data")
    /\ pr' = access(pr, "data")
    /\ UNCHANGED <<sessionVars, redirectVars, upload, verb, resp,
                 utilVars>>

\* One turn of the pager's loop: the GET, the Page, the has_more test. When
\* the loop ends, list() ends, the page cache is set and the accessor goes
\* on. The server answers with a page, or with an error status and _get
\* raises, or the credential exchange before the GET fails.
PagerGet ==
    /\ pr.pc = "get"
    /\ pr.page < MaxPages
    /\ \/ \E n \in PageSizes(pr.top) :
            LET e == PageResponse(pr.top, n)
                pg == Page(e, pr.current_skip, pr.top, pr.page, pr.runs)
                q == [pr EXCEPT !.collected = Append(pr.collected, pg),
                                !.gets = pr.gets + 1]
            IN  IF pager_stops(e)
                THEN pr' = complete([q EXCEPT !.pc = "idle",
                                             !.pages_cache = Some(q.collected),
                                             !.collected = <<>>], pr.op)
                ELSE pr' = [q EXCEPT !.current_skip = pr.current_skip + offset,
                                     !.page = pr.page + 1]
       \/ \E err \in {"HTTPError", "APIAuthenticationException"} :
             pr' = pager_raises(pr, err)
    /\ UNCHANGED <<sessionVars, redirectVars, upload, verb, resp,
                 utilVars>>

\* refresh_cache().
RefreshCache ==
    /\ pr.made
    /\ pr.pc = "idle"
    /\ pr' = [refresh_cache(pr) EXCEPT !.last_op = "refresh",
                                       !.refreshed_at = pr.runs,
                                       !.returned = Returned("none", <<>>)]
    /\ UNCHANGED <<sessionVars, redirectVars, upload, verb, resp,
                 utilVars>>

PagerNext ==
    \/ \E c \in CallerParams : Paginate(c.top, c.skip)
    \/ Pages
    \/ Results
    \/ PagedData
    \/ PagerGet
    \/ RefreshCache

PagerSpec == Init /\ [][PagerNext]_vars

(***************************************************************************)
(* A PatchableDict: construction, mutation by its holder, patch            *)
(* generation, a PATCH call and update_snapshot (tassapi/utils/models.py). *)
(***************************************************************************)
Construct(c) ==
    /\ ~pd.made
    /\ pd' = [NoPatchable EXCEPT !.made = TRUE, !.obj = PatchableDict(c),
                                 !.op = "init"]
    /\ UNCHANGED <<sessionVars, redirectVars, engineVars, conv, req>>

\* The holder changes the live contents, nested containers included.
Mutate ==
    /\ pd.made
    /\ pd.edits < MaxEdits
    /\ \E c \in Edits(pd.obj.current) :
          /\ c # pd.obj.current
          /\ pd' = [pd EXCEPT !.obj.current = c, !.edits = @ + 1,
                              !.op = "mutate", !.patch = <<>>,
                              !.body = NoData]
    /\ UNCHANGED <<sessionVars, redirectVars, engineVars, conv, req>>

AsJsonPatch ==
    /\ pd.made
    /\ pd' = [pd EXCEPT !.op = "as_json_patch", !.body = NoData,
                        !.patch = as_json_patch(pd.obj)]
    /\ UNCHANGED <<sessionVars, redirectVars, engineVars, conv, req>>

\* The object is the data of a PATCH call (wrapped_fn, lines 37 and 43-50).
PatchSend ==
    /\ pd.made
    /\ pd' = [pd EXCEPT !.op = "patch", !.patch = <<>>,
                        !.body = request_data("patch", pd.obj)]
    /\ UNCHANGED <<sessionVars, redirectVars, engineVars, conv, req>>

UpdateSnapshot ==
    /\ pd.made
    /\ pd' = [pd EXCEPT !.op = "update_snapshot", !.patch = <<>>,
                        !.body = NoData,
                        !.obj = update_snapshot(pd.obj)]
    /\ UNCHANGED <<sessionVars, redirectVars, engineVars, conv, req>>

PatchableDrop ==
    /\ pd.made
    /\ pd' = NoPatchable
    /\ UNCHANGED <<sessionVars, redirectVars, engineVars, conv, req>>

PatchableNext ==
    \/ \E c \in Contents : Construct(c)
    \/ Mutate
    \/ AsJsonPatch
    \/ PatchSend
    \/ UpdateSnapshot
    \/ PatchableDrop

PatchableSpec == Init /\ [][PatchableNext]_vars

(***************************************************************************)
(* Calls of datetime_from_string and of datetime_obj_hook                  *)
(* (datetime_utils.py).                                                    *)
(***************************************************************************)
DatetimeFromString(dt, fmt) ==
    /\ conv.op = ""
    /\ conv' = [NoParse EXCEPT !.op = "datetime_from_string", !.s = dt,
                               !.fmt = fmt,
                               !.parsed = datetime_from_string(dt, fmt, -1)]
    /\ UNCHANGED <<sessionVars, redirectVars, engineVars, pd, req>>

\* The hook on an object with the one field k: v.
DatetimeObjHook(k, v) ==
    /\ conv.op = ""
    /\ conv' = [NoParse EXCEPT !.op = "datetime_obj_hook", !.key = k,
                               !.arg = v,
                               !.hooked = datetime_obj_hook(k, v)]
    /\ UNCHANGED <<sessionVars, redirectVars, engineVars, pd, req>>

ConvReturn ==
    /\ conv.op # ""
    /\ conv' = NoParse
    /\ UNCHANGED <<sessionVars, redirectVars, engineVars, pd, req>>

ConvNext ==
    \/ \E dt \in Strings, fmt \in CallerFormats : DatetimeFromString(dt, fmt)
    \/ \E k \in FieldNames, v \in {StrValue(x) : x \in Strings} \cup {NumValue} :
          DatetimeObjHook(k, v)
    \/ ConvReturn

ConvSpec == Init /\ [][ConvNext]_vars

(***************************************************************************)
(* TassWorker.create on the session (worker.py lines 97-108).              *)
(***************************************************************************)
\* create(payload=..., validate_keys=...): the validation, then _post.
Create(B) ==
    /\ \E payload \in SUBSET AttrNames, validate_keys \in ValidateKeys :
          /\ req' = [NoReqKw EXCEPT !.op = "create", !.payload = payload,
                                    !.validate_keys = validate_keys]
          /\ IF /\ validate_keys.given
                /\ raise_for_reqd_attrs(payload, validate_keys.keys)
             THEN /\ last' = [NoCall EXCEPT !.op = "create",
                                            !.result = "ValueError"]
                  /\ UNCHANGED <<authorization, auth_data>>
             ELSE wrapped_fn(B)
    /\ UNCHANGED <<now, pc, local, redirectVars, engineVars, pd, conv>>

CreateNext == Tick \/ Authenticate(ConcBodies) \/ Create(ConcBodies)

CreateSpec == Init /\ [][CreateNext]_vars

(***************************************************************************)
(* The Content-Type header of a request (sessions.py lines 244-258).       *)
(***************************************************************************)
SetContentTypeHeader(method, files, headers) ==
    /\ req.op = ""
    /\ req' = [NoReqKw EXCEPT
                  !.op = "set_content_type_header", !.method = method,
                  !.files = files, !.prior = headers,
                  !.headers = set_content_type_header(method, files, headers)]
    /\ UNCHANGED <<sessionVars, redirectVars, engineVars, pd, conv>>

HeaderReturn ==
    /\ req.op = "set_content_type_header"
    /\ req' = NoReqKw
    /\ UNCHANGED <<sessionVars, redirectVars, engineVars, pd, conv>>

HeaderNext ==
    \/ \E method \in HeaderMethods, files \in FilesKeywords,
          headers \in CallerHeaders :
          SetContentTypeHeader(method, files, headers)
    \/ HeaderReturn

HeaderSpec == Init /\ [][HeaderNext]_vars

(***************************************************************************)
(* Claims about the session.                                               *)
(***************************************************************************)
\* What the session holds reads as authenticated.
IsAuthenticated == authenticated(authorization, auth_data, now) = "True"

\* C1: authenticated is true exactly when a bearer token is installed and
\* the clock is at or before the token's expiry minus the offset (stated for
\* a session with no token data or with an expiry the clock compares with).
C1_AuthenticatedIffUnexpired ==
    (~auth_data.present \/ Comparable(auth_data)) =>
        (IsAuthenticated <=>
            /\ has_token(authorization)
            /\ auth_data.present
            /\ ~PastAdjustedExpiry(auth_data, now))

\* The last call made a successful credential exchange.
LastExchangeOk == last.exchanges = 1 /\ last.result = "ok"

\* C2: authenticated is false before any authenticate call; after a
\* successful authenticate it is true while the clock has not passed expiry
\* minus offset, and false once the clock is past it.
C2_AuthenticatedLifecycle ==
    /\ last.op = "none" => ~IsAuthenticated
    /\ (LastExchangeOk /\ Comparable(auth_data)) =>
          IF PastAdjustedExpiry(auth_data, now)
          THEN ~IsAuthenticated
          ELSE IsAuthenticated

\* C3: a verb call makes a credential exchange exactly when it starts with
\* no token or with the clock past expiry minus offset, and never more than
\* one.
C3_ExchangeIffNotAuthenticatedAtStart ==
    (last.op = "verb" /\ (last.pre_token => last.pre_comparable)) =>
        /\ last.exchanges <= 1
        /\ last.exchanges = 1 <=> (~last.pre_token \/ last.pre_past)

\* C4: a credential exchange whose response body is not valid JSON, or has
\* a missing or malformed field, ends in an authentication error.
C4_MalformedBodyRaises ==
    (last.exchanges = 1 /\ last.malformed) =>
        last.result = "APIAuthenticationException"

\* C5: after any sequence of authenticate calls made one at a time, the
\* session has an Authorization header iff it has token data, and the
\* header's token is the token of that data.
C5_HeaderIffTokenData ==
    /\ has_token(authorization) <=> auth_data.present
    /\ auth_data.present => authorization = Bearer(auth_data.token)

\* A second exchange replaced the first token, and a third failed.
C5_Witness ==
    /\ last.op = "authenticate"
    /\ last.result = "APIAuthenticationException"
    /\ auth_data.present
    /\ auth_data.token = "tokB"
    /\ authorization = Bearer("tokB")

\* C6: once two threads' calls have both finished, the Authorization header
\* and the stored token data come from the same credential exchange.
C6_HeaderAndDataFromSameExchange ==
    (\A t \in Threads : pc[t] = "idle") =>
        (auth_data.present => authorization = Bearer(auth_data.token))

\* C7: valid_company_code is true iff some record of the stored tenant
\* list, at any position, has a tenant code equal to cmpy_code, and false
\* when no tenant list is stored.
C7_ValidIffSomeTenantMatches ==
    valid_company_code(auth_data) <=>
        /\ auth_data.present
        /\ auth_data.allowed_companies.type = "list"
        /\ \E i \in 1..Len(auth_data.allowed_companies.items) :
              auth_data.allowed_companies.items[i] = cmpy_code

(***************************************************************************)
(* Claims about the redirect adapter.                                      *)
(***************************************************************************)
\* Scheme, host and port of a URL as the specification compares them: host
\* names without regard to case, port 80 or 443 when the URL has none.
OriginOf(u) ==
    <<u.scheme, Lower(u.host),
      IF u.port # 0 THEN u.port ELSE IF u.scheme = "http" THEN 80 ELSE 443>>

\* Call c's request is on the wire, sent by the adapter as a follow-up that
\* came to send() without an Authorization header.
BareFollowupSent(c) ==
    /\ chain[c].stage = "sent"
    /\ chain[c].via = "adapter"
    /\ chain[c].followup
    /\ chain[c].pre_auth = NoHeader

\* C8: a follow-up request without Authorization, to a URL of the same
\* scheme, host and port as the original request that carried one, goes out
\* with the original Authorization value re-attached.
C8_SameOriginFollowupGetsAuthorization ==
    \A c \in Chains :
        (/\ BareFollowupSent(c)
         /\ chain[c].auth0 # NoHeader
         /\ OriginOf(chain[c].url0) = OriginOf(chain[c].url))
            => chain[c].auth = chain[c].auth0

\* C9: over any chain of redirects the adapter adds no Authorization header
\* to a request whose URL differs from the original request's URL in scheme,
\* host or port; such a request goes out as it came.
C9_NoAuthorizationAcrossOrigins ==
    \A c \in Chains :
        (/\ chain[c].stage = "sent"
         /\ chain[c].via = "adapter"
         /\ OriginOf(chain[c].url0) # OriginOf(chain[c].url))
            => chain[c].auth = chain[c].pre_auth

\* A follow-up to another port of the original host went out bare although
\* the request object holds the original Authorization value.
C9_Witness ==
    /\ BareFollowupSent(1)
    /\ chain[1].url0 = Url("https", "a", 0)
    /\ chain[1].url = Url("https", "A", 8443)
    /\ attrs[1].has
    /\ attrs[1].original_request_url = chain[1].url0
    /\ attrs[1].original_auth = Bearer("tokA")
    /\ chain[1].auth = NoHeader

\* The redirect-tracking state send() reads and writes for call c.
TrackingState(c) == attrs[AttrOwner(c)]

\* C10: redirect-tracking state lives on the request object in flight: a
\* step of one call leaves the other call's request and tracking state as
\* they were, and a request never carries another call's Authorization.
C10_CallsDoNotInterfere ==
    /\ [](\A c \in Chains :
            chain[c].auth \in {NoHeader, Bearer(ChainToken(c))})
    /\ [][\A c \in Chains : \A d \in Chains \ {c} :
            chain'[c] # chain[c] =>
                /\ chain'[d] = chain[d]
                /\ TrackingState(d)' = TrackingState(d)]_vars

\* Both calls are on the wire with their own tracking state, and the first
\* one had its Authorization restored.
C10_Witness ==
    /\ BareFollowupSent(1)
    /\ chain[1].auth = Bearer("tokA")
    /\ chain[2].stage = "sent"
    /\ attrs[2].has
    /\ attrs[2].original_auth = Bearer("tokB")
    /\ attrs[1].original_request_url # attrs[2].original_request_url

(***************************************************************************)
(* Claims about file uploads.                                              *)
(***************************************************************************)
\* Every file-like object of the files value is closed.
AllFilesClosed ==
    \A k \in FileKeys :
        holds_file(upload.files.items[k]) => upload.handles[k] = "closed"

\* C11: for a files map with any number of entries, the body of the
\* prepare_file_upload context runs, and once the context has been left
\* (the call is over) every file-like object of the map is closed.
C11_FilesClosedAfterContext ==
    (upload.pc = "done" /\ upload.files.is_dict /\ has_files(upload.files))
        => (upload.entered /\ AllFilesClosed)

\* C12: a verb call that carries files issues the transport call inside the
\* upload context, while the handles are open, closes the handles after it
\* and yields a response like any other verb call.
C12_TransportInsideUploadContext ==
    (upload.pc = "done" /\ upload.files.is_dict /\ has_files(upload.files))
        => (upload.sent = "open" /\ upload.result = "response")

(***************************************************************************)
(* Claims about the data payload.                                          *)
(***************************************************************************)
\* C13: the body of a PATCH call whose payload is a tracked mapping is the
\* patch document of the payload against its snapshot, whatever the payload
\* holds at the time (nothing at all included); a payload that is not a
\* tracked mapping goes out as it is, and so does every payload of another
\* verb.
C13_PatchBodyIsPatchDocument ==
    verb.pc = "sent" =>
        IF verb.method = "patch" /\ verb.data.kind = "tracked"
        THEN verb.body =
                 DataValue("patch_str", EmptyMapping, EmptyMapping,
                           as_json_patch(verb.data))
        ELSE verb.body = verb.data

(***************************************************************************)
(* Claims about the response envelope.                                     *)
(***************************************************************************)
\* C14: a verb call raises an HTTP error exactly when the status of the
\* response is outside the safe set, 200..399 together with the caller's
\* safe_statuses; 1xx and statuses from 600 on are outside it unless the
\* caller names them.
C14_RaisesIffStatusNotSafe ==
    resp.pc \in {"returned", "raised"} =>
        (resp.pc = "raised"
            <=> resp.r.status_code \notin ((200..399) \cup resp.safe))

\* C15: for a JSON response whose URL carries $top and whose body is an
\* array or an object, has_more is true exactly when the body is an array
\* whose length is $top; otherwise it is false.
C15_HasMoreIffFullArray ==
    (/\ resp.has_more # "unset"
     /\ resp.r.has_json
     /\ resp.r.url_top # NoTop
     /\ resp.r.payload.shape \in {"array", "object"})
        => resp.has_more =
               (IF resp.r.payload.shape = "array"
                     /\ resp.r.payload.len = resp.r.url_top
                THEN "True" ELSE "False")

\* A timestamp as a server writes it: two digits for month, day, hour, minute
\* and second, none to six digits of a fraction, and no suffix or "Z".
WellWritten(v) ==
    /\ v.type = "str"
    /\ v.s.kind = "ts"
    /\ v.s.padded
    /\ v.s.z \in {"", "Z"}
    /\ v.s.dot => Len(v.s.frac) >= 1

\* C16: a timestamp field that data has decoded into a parsed value reads,
\* converted back to a string, exactly as the string the response held:
\* same format, same digits of the fraction, same suffix.
C16_DecodedTimestampRoundTrips ==
    (/\ resp.data.state = "cached"
     /\ resp.data.value.type = "ParsedDatetime"
     /\ WellWritten(resp.r.payload.value))
        => StrValue(datetime_str(resp.data.value.dt)) = resp.r.payload.value

(***************************************************************************)
(* Claims about pagination.                                                *)
(***************************************************************************)
\* The number of records of a page.
PageLen(pg) == Len(page_data(pg))

RECURSIVE SumOfLens(_)
SumOfLens(pgs) ==
    IF pgs = <<>> THEN 0 ELSE PageLen(Head(pgs)) + SumOfLens(Tail(pgs))

\* C17: with the default page size 100 the pager goes on while every page
\* it got is full and ends with the first page shorter than 100, without a
\* GET after it: the page cache holds full pages followed by one short
\* page, one GET was issued per page, and data holds the sum of the pages'
\* record counts.
C17_PagerEndsAtFirstShortPage ==
    pr.top = 100 =>
        /\ pr.pc = "get" =>
              /\ \A i \in 1..Len(pr.collected) : PageLen(pr.collected[i]) = 100
              /\ pr.gets = Len(pr.collected)
        /\ pr.pages_cache.some =>
              LET pgs == pr.pages_cache.list
              IN  /\ Len(pgs) >= 1
                  /\ \A i \in 1..(Len(pgs) - 1) : PageLen(pgs[i]) = 100
                  /\ PageLen(pgs[Len(pgs)]) < 100
                  /\ pr.gets = Len(pgs)
        /\ pr.data_cache.some =>
              Len(pr.data_cache.list) = SumOfLens(pr.pages_cache.list)

\* Pages of 100, 100 and 37 records gave 3 pages and 237 records.
C17_Witness ==
    /\ pr.top = 100
    /\ pr.pages_cache.some
    /\ Len(pr.pages_cache.list) = 3
    /\ PageLen(pr.pages_cache.list[3]) = 37
    /\ pr.data_cache.some
    /\ Len(pr.data_cache.list) = 237
    /\ pr.gets = 3

\* The records of a list of pages, one page after the other.
RECURSIVE Concat(_, _)
Concat(pgs, i) ==
    IF i > Len(pgs) THEN <<>> ELSE page_data(pgs[i]) \o Concat(pgs, i + 1)

\* C18: once pages has its cache, an access to pages, results or data
\* issues no GET, leaves the cached pages as they are and gives the cached
\* pages or their records; only refresh_cache ends this.
C18_CachedAccessesIssueNoCalls ==
    [][(pr.pages_cache.some /\ pr.pc = "idle" /\ pr'.last_op # "refresh")
          => /\ pr'.pc = "idle"
             /\ pr'.gets = pr.gets
             /\ pr'.runs = pr.runs
             /\ pr'.pages_cache = pr.pages_cache
             /\ pr'.returned.list =
                    IF pr'.last_op = "pages" THEN pr.pages_cache.list
                    ELSE Concat(pr.pages_cache.list, 1)]_vars

\* results was read after data and pages had been: a third access, served
\* from the cache of a run with more than one page.
C18_Witness ==
    /\ pr.last_op = "results"
    /\ pr.data_cache.some
    /\ Len(pr.pages_cache.list) = 2
    /\ pr.returned.kind = "records"
    /\ pr.runs = 1

\* Every record of the list was fetched by the run of the pager given.
FetchedBy(records, run) == \A i \in 1..Len(records) : records[i].run = run

\* C19: refresh_cache leaves both caches empty; the run of the pager that
\* the next access starts begins at the initial skip with page index 0 and
\* issues one GET per page; and what an access gives after a refresh was
\* fetched after that refresh.
C19_RefreshForcesNewFetch ==
    /\ pr.last_op = "refresh" => (~pr.pages_cache.some /\ ~pr.data_cache.some)
    /\ pr.pc = "get" =>
          /\ pr.page = Len(pr.collected)
          /\ pr.gets = Len(pr.collected)
          /\ pr.current_skip = pr.skip + pr.page * 100
    /\ pr.pages_cache.some =>
          /\ pr.pages_cache.list[1].offset = pr.skip
          /\ pr.pages_cache.list[1].page_num = 0
          /\ pr.gets = Len(pr.pages_cache.list)
          /\ \A i \in 1..Len(pr.pages_cache.list) :
                 pr.pages_cache.list[i].run > pr.refreshed_at
    /\ pr.returned.kind = "pages" =>
          \A i \in 1..Len(pr.returned.list) :
              pr.returned.list[i].run > pr.refreshed_at
    /\ pr.returned.kind = "records" =>
          \A i \in 1..Len(pr.returned.list) :
              pr.returned.list[i].run > pr.refreshed_at

\* data was read, the caches were refreshed, and data was read again and
\* gave the records of the second run.
C19_Witness ==
    /\ pr.refreshed_at = 1
    /\ pr.runs = 2
    /\ pr.last_op = "data"
    /\ pr.returned.kind = "records"
    /\ Len(pr.returned.list) = 137
    /\ FetchedBy(pr.returned.list, 2)

\* C20: whenever the record cache is set, the page cache is set too and the
\* record cache is the records of the cached pages, page after page.
C20_RecordCacheMatchesPageCache ==
    pr.data_cache.some =>
        /\ pr.pages_cache.some
        /\ pr.data_cache.list = Concat(pr.pages_cache.list, 1)

\* Both caches are set, with more than one page in the page cache.
C20_Witness ==
    /\ pr.data_cache.some
    /\ pr.pages_cache.some
    /\ Len(pr.pages_cache.list) = 3
    /\ pr.last_op = "pages"

(***************************************************************************)
(* Claims about the PatchableDict.                                         *)
(***************************************************************************)
\* Applying a JSON patch (RFC 6902) to a document: the value at a path, the
\* document with the value at a path replaced, and the operations in order.
RECURSIVE ValueAt(_, _)
ValueAt(v, path) ==
    IF path = <<>> THEN v
    ELSE IF v.kind = "mapping" THEN ValueAt(v.m[Head(path)], Tail(path))
    ELSE Missing

RECURSIVE WithValueAt(_, _, _)
WithValueAt(v, path, new) ==
    IF path = <<>> THEN new
    ELSE [v EXCEPT !.m[Head(path)] = WithValueAt(@, Tail(path), new)]

RECURSIVE ApplyPatch(_, _, _)
ApplyPatch(doc, ops, i) ==
    IF i > Len(ops) THEN [ok |-> TRUE, doc |-> doc]
    ELSE LET o == ops[i]
             parent == ValueAt(doc, SubSeq(o.path, 1, Len(o.path) - 1))
             target == ValueAt(doc, o.path)
             applies ==
                 CASE o.op = "test" -> target = o.value
                   [] o.op = "add" -> parent.kind = "mapping"
                   [] OTHER -> target # Missing
             after ==
                 CASE o.op = "test" -> doc
                   [] o.op = "remove" -> WithValueAt(doc, o.path, Missing)
                   [] OTHER -> WithValueAt(doc, o.path, o.value)
         IN  IF applies THEN ApplyPatch(after, ops, i + 1)
             ELSE [ok |-> FALSE, doc |-> doc]

\* C21: the operations as_json_patch returns, applied in order to the
\* snapshot, all succeed (every test passes) and give exactly the present
\* contents; a snapshot equal to the contents gives no operations.
C21_PatchTurnsSnapshotIntoContent ==
    pd.op = "as_json_patch" =>
        LET r == ApplyPatch(Value("mapping", "", pd.obj.snapshot, <<>>),
                            pd.patch, 1)
        IN  /\ r.ok
            /\ r.doc = Value("mapping", "", pd.obj.current, <<>>)
            /\ (pd.obj.snapshot = pd.obj.current => pd.patch = <<>>)

\* C22: no step other than update_snapshot (and construction) changes the
\* snapshot: a mutation of the contents, nested containers included, a
\* patch generation and a PATCH call leave it as it was; update_snapshot
\* makes it the present contents, and the patch generated right after it
\* is empty.
C22_OnlyUpdateSnapshotMovesSnapshot ==
    [][/\ pd'.op \in {"mutate", "as_json_patch", "patch"}
              => pd'.obj.snapshot = pd.obj.snapshot
       /\ (pd'.op = "update_snapshot" /\ pd' # pd)
              => /\ pd'.obj.snapshot = pd.obj.current
                 /\ pd'.obj.current = pd.obj.current
                 /\ as_json_patch(pd'.obj) = <<>>]_vars

\* update_snapshot has acted on an object whose contents, a nested mapping
\* among them, had moved away from the snapshot taken at construction.
C22_Witness ==
    /\ pd.op = "update_snapshot"
    /\ pd.edits > 0
    /\ pd.obj.snapshot \notin Contents
    /\ \E k \in PatchKeys : pd.obj.snapshot[k].kind = "mapping"

(***************************************************************************)
(* Claims about the parsing of dates and times.                            *)
(***************************************************************************)
\* C23: a string that one of the candidate formats parses comes back from
\* str(datetime_from_string(s)) as it was written.
C23_ParsedStringRoundTrips ==
    (/\ conv.op = "datetime_from_string"
     /\ conv.fmt = NoDatetime.fmt
     /\ \E i \in 1..Len(candidates) :
            strptime_ok(normalize_for_strptime(conv.s).norm, candidates[i]))
        => /\ conv.parsed.raised = ""
           /\ datetime_str(conv.parsed.value) = conv.s

\* C24: datetime_obj_hook raises nothing; a string under a known field name
\* comes back parsed or, if it cannot be parsed, as the string it was, and
\* the value of any other field comes back as it was.
C24_HookNeverRaises ==
    conv.op = "datetime_obj_hook" =>
        /\ conv.hooked.raised = ""
        /\ conv.hooked.value.type = "ParsedDatetime"
               \/ conv.hooked.value = conv.arg
        /\ casefold(conv.key) \notin field_candidates
               => conv.hooked.value = conv.arg

\* C27: datetime_from_string parses with the format of the caller if it
\* fits, else with the first candidate that fits, else by the structural
\* pattern, and raises its parse error only when none of them fits.
C27_FallsBackAfterCallerFormat ==
    conv.op = "datetime_from_string" =>
        LET n == normalize_for_strptime(conv.s).norm
            i == first_format(n, 1)
        IN  IF conv.fmt # NoDatetime.fmt /\ strptime_ok(n, conv.fmt)
            THEN conv.parsed.raised = "" /\ conv.parsed.value.fmt = conv.fmt
            ELSE IF i > 0
            THEN /\ conv.parsed.raised = ""
                 /\ conv.parsed.value.fmt = candidates[i]
            ELSE IF iso_timestamp_ptn(conv.s)
            THEN conv.parsed.raised = ""
            ELSE conv.parsed.raised = "ValueError"

(***************************************************************************)
(* Claims about create and about the Content-Type header.                  *)
(***************************************************************************)
\* C25: a create whose payload lacks a key named in validate_keys raises
\* the validation error, exchanges no credentials, calls no transport and
\* leaves the header and the token data of the session as they were.
C25_CreateValidatesBeforeNetwork ==
    [][(/\ last'.op \in {"create", "verb"}
        /\ req'.validate_keys.given
        /\ \E k \in req'.validate_keys.keys : k \notin req'.payload)
          => /\ last'.op = "create"
             /\ last'.result = "ValueError"
             /\ last'.exchanges = 0
             /\ ~last'.transport
             /\ authorization' = authorization
             /\ auth_data' = auth_data]_vars

\* A create was refused for a missing key on a session that holds a token,
\* with another required key present in the payload.
C25_Witness ==
    /\ last.op = "create"
    /\ last.result = "ValueError"
    /\ has_token(authorization)
    /\ req.validate_keys.keys \cap req.payload # {}

\* C26: after set_content_type_header a request that carries files has no
\* Content-Type; one that carries none has the JSON patch type for patch,
\* application/json for post and put, and for any other method the value
\* of the caller, or application/json if the caller gave none.
C26_ContentTypeByMethod ==
    req.op = "set_content_type_header" =>
        req.headers["Content-Type"] =
            IF req.files = "files" THEN Unset
            ELSE IF req.method \in {"patch", "PATCH"}
            THEN "application/json-patch+json"
            ELSE IF req.method \in {"post", "put"} THEN "application/json"
            ELSE IF req.prior["Content-Type"] # Unset
            THEN req.prior["Content-Type"]
            ELSE "application/json"

(***************************************************************************)
(* Claims about the requests of the pager and about its failure.           *)
(***************************************************************************)
\* C28: the pages the pager requests follow one another without a gap and
\* without an overlap: each request skips what the request before it
\* skipped plus the page size it asked for.
C28_PagesAreContiguous ==
    \A l \in {pr.collected, pr.pages_cache.list} :
        \A i \in 1..(Len(l) - 1) : l[i + 1].offset = l[i].offset + l[i].top

\* C29: when a GET of the pager fails, the access ends with the error, the
\* page cache and the record cache are both empty and no page drawn so far
\* is kept; the access that follows starts the pager at its first page.
C29_FailedFetchLeavesNoCache ==
    [][/\ (pr.pc = "get" /\ pr'.returned.kind \in {"HTTPError", "APIAuthenticationException"})
           => /\ pr'.pc = "idle"
              /\ pr'.pages_cache = None
              /\ pr'.data_cache = None
              /\ pr'.collected = <<>>
       /\ (/\ pr.returned.kind \in {"HTTPError", "APIAuthenticationException"}
           /\ pr'.last_op \in {"pages", "results", "data"}
           /\ pr' # pr)
           => /\ pr'.pc = "get"
              /\ pr'.current_skip = pr.skip
              /\ pr'.page = 0
              /\ pr'.gets = 0
              /\ pr'.collected = <<>>]_vars

\* The pager failed on a later page, after it had drawn pages, on its
\* second run.
C29_Witness ==
    /\ pr.returned.kind \in {"HTTPError", "APIAuthenticationException"}
    /\ pr.gets > 1
    /\ pr.runs > 1
    /\ pr.pages_cache = None

(***************************************************************************)
(* Claims about a failed authentication.                                   *)
(***************************************************************************)
\* C30: a credential exchange that fails leaves the Authorization header
\* and the token data of the session as they were before the call, a token
\* stored earlier included; the call makes no transport call and makes the
\* exchange once.
C30_FailedAuthenticationChangesNothing ==
    [][last'.result = "APIAuthenticationException"
          => /\ authorization' = authorization
             /\ auth_data' = auth_data
             /\ ~last'.transport
             /\ last'.exchanges = 1]_vars

\* A verb call failed in its credential exchange on a session that holds
\* the token of an earlier exchange.
C30_Witness ==
    /\ last.op = "verb"
    /\ last.result = "APIAuthenticationException"
    /\ has_token(authorization)
    /\ auth_data.present

====
